---- MODULE Spec2Model ----
(***************************************************************************)
(* Model of merge_data_with_dask.ipynb: convert_to_parquet (CSV files of   *)
(* a directory to one parquet file each) and merge_monthly_trips (select   *)
(* parquet files of a directory by file name, concatenate, write).         *)
(*                                                                         *)
(* Python strings are sequences of character codes, so that the            *)
(* comparisons, slices and suffix tests of the code are computed.          *)
(***************************************************************************)
EXTENDS Integers, Sequences, FiniteSets, TLC

\* ------------------------------------------------------------------ bounds
MaxFiles == 3      \* entries of the parquet directory before the first call
MaxCsv == 3        \* entries of the CSV directory
MaxRuns == 2       \* calls of convert_to_parquet / merge_monthly_trips
MaxRemovals == 1   \* files another process removes during a merge

\* ------------------------------------------------------- character strings
\* "-" "." "/" "0" "N" "\"
Hyphen == <<45>>
Period == <<46>>
Slash == <<47>>
Zero == <<48>>
BackslashN == <<92, 78>>
\* ".csv" ".txt" ".parquet" "alltrips"
CsvExt == <<46, 99, 115, 118>>
TxtExt == <<46, 116, 120, 116>>
PARQUET_EXTENSION == <<46, 112, 97, 114, 113, 117, 101, 116>>
AllTrips == <<97, 108, 108, 116, 114, 105, 112, 115>>
\* the directory arguments of the two calls of the notebook, shortened to
\* "c/" and "p/"
CsvDirectory == <<99, 47>>
ParquetDirectory == <<112, 47>>

Min(a, b) == IF a <= b THEN a ELSE b

\* Python's str(n) for an int n >= 0: its decimal digits
RECURSIVE StrOfInt(_)
StrOfInt(n) ==
    IF n < 10 THEN <<48 + n>> ELSE StrOfInt(n \div 10) \o <<48 + (n % 10)>>

\* Python's a < b on str: the first differing character decides, a proper
\* prefix is smaller
StrLt(a, b) ==
    \E p \in 1..(Min(Len(a), Len(b)) + 1) :
        /\ \A q \in 1..(p - 1) : a[q] = b[q]
        /\ \/ p > Len(a) /\ p <= Len(b)
           \/ p <= Len(a) /\ p <= Len(b) /\ a[p] < b[p]

StrLeq(a, b) == a = b \/ StrLt(a, b)

\* str.endswith
EndsWith(s, suffix) ==
    /\ Len(s) >= Len(suffix)
    /\ SubSeq(s, Len(s) - Len(suffix) + 1, Len(s)) = suffix

\* str.startswith
StartsWith(s, prefix) ==
    /\ Len(s) >= Len(prefix)
    /\ SubSeq(s, 1, Len(prefix)) = prefix

\* sorted(...) of a collection of distinct strings
RECURSIVE Sorted(_)
Sorted(S) ==
    IF S = {} THEN <<>>
    ELSE LET m == CHOOSE x \in S : \A y \in S : StrLeq(x, y)
         IN <<m>> \o Sorted(S \ {m})

\* path.split("/")[-1]: what follows the last "/"
RECURSIVE LastComponent(_)
LastComponent(path) ==
    IF \E p \in 1..Len(path) : <<path[p]>> = Slash
    THEN LastComponent(Tail(path))
    ELSE path

\* mutant: s[:-3]
DropLast3(s) == SubSeq(s, 1, Len(s) - 3)
\* s[:-4]
DropLast4(s) == SubSeq(s, 1, Len(s) - 4)

\* re.sub(r"\\N", "0", s): every occurrence of backslash-N becomes "0"
RECURSIVE ReplaceBackslashN(_)
ReplaceBackslashN(s) ==
    IF s = <<>> THEN <<>>
    ELSE IF StartsWith(s, BackslashN)
         THEN Zero \o ReplaceBackslashN(SubSeq(s, 3, Len(s)))
         ELSE <<Head(s)>> \o ReplaceBackslashN(Tail(s))

\* --------------------------------------------------------------- the year
\* the year argument: None is <<>>, an int n is <<n>>
None == <<>>
IsTruthy(year) == year # None /\ year[1] # 0
StrOfYear(year) == IF year = None THEN <<78, 111, 110, 101>> ELSE StrOfInt(year[1])
YearArgs == {None, <<0>>, <<2019>>, <<2020>>}

MonthFile(y, m) ==
    StrOfInt(y) \o Hyphen \o (IF m < 10 THEN Zero ELSE <<>>) \o StrOfInt(m)
        \o PARQUET_EXTENSION
\* ------------------------------------------------------------ table cells
\* a cell of a dataframe: NaN, a number, or a str
NaN == [k |-> "nan", n |-> 0, s |-> <<>>]
Num(n) == [k |-> "num", n |-> n, s |-> <<>>]
Str(s) == [k |-> "str", n |-> 0, s |-> s]

IsDigits(s) == s # <<>> /\ \A p \in 1..Len(s) : s[p] \in 48..57

RECURSIVE IntOf(_)
IntOf(s) ==
    IF s = <<>> THEN 0 ELSE 10 * IntOf(SubSeq(s, 1, Len(s) - 1)) + (s[Len(s)] - 48)

\* mutant: the cast is left out (as the commented-out cast of line 123)
AsTypeStrLeftOut(dtype, cell) == cell
\* Series.astype("str") of one value of a column of the given dtype
AsTypeStr(dtype, cell) ==
    IF cell.k = "num"
    THEN Str(StrOfInt(cell.n) \o (IF dtype = "float64" THEN Period \o Zero ELSE <<>>))
    ELSE IF cell.k = "nan" THEN Str(<<110, 97, 110>>)
    ELSE cell

\* a file that is no parquet file
NotParquet == [ok |-> FALSE, dtype |-> "none", rows |-> <<>>]
Table(dtype, rows) == [ok |-> TRUE, dtype |-> dtype, rows |-> rows]

\* ----------------------------------------------- the parquet directories
\* Monthly file m of year y: one or two rows, the birth year stored as
\* int64, float64 or text in turn
MonthDtype(m) == IF m % 3 = 0 THEN "object" ELSE IF m % 3 = 1 THEN "int64" ELSE "float64"
MonthTable(y, m) ==
    Table(MonthDtype(m),
          [j \in 1..(1 + (m % 2)) |->
              [tripduration |-> (y % 100) * 1000 + m * 10 + j,
               endstationid |-> Num(70 + j),
               birthyear |-> IF m % 3 = 0 THEN Str(StrOfInt(1960 + j))
                             ELSE Num(1980 + m + j)]])

\* "2019-13", "2019-05.csv", "notes.txt"
Name2019_13 == StrOfInt(2019) \o Hyphen \o StrOfInt(13)
Name2019_05_csv == StrOfInt(2019) \o Hyphen \o Zero \o StrOfInt(5) \o CsvExt
NameNotes == <<110, 111, 116, 101, 115>> \o TxtExt

\* The entries a parquet directory is drawn from, with their contents
PqUniverse ==
    (MonthFile(2018, 12) :> MonthTable(2018, 12))
    @@ (MonthFile(2019, 1) :> MonthTable(2019, 1))
    @@ (MonthFile(2019, 2) :> MonthTable(2019, 2))
    @@ (MonthFile(2020, 1) :> MonthTable(2020, 1))
    @@ (Name2019_13 :> MonthTable(2019, 13))
    @@ (Name2019_05_csv :> NotParquet)
    @@ (AllTrips \o PARQUET_EXTENSION :> MonthTable(2017, 8))
    @@ (NameNotes :> NotParquet)

Months == 1..12
FullYear(y) == [f \in {MonthFile(y, m) : m \in Months} |->
                   MonthTable(y, CHOOSE m \in Months : MonthFile(y, m) = f)]
\* monthly files of other years: the neighbouring years, and years whose
\* decimal form is a prefix or an extension of str(y)
OtherYears(y) ==
    (MonthFile(y - 1, 12) :> MonthTable(y - 1, 12))
    @@ (MonthFile(y + 1, 1) :> MonthTable(y + 1, 1))
    @@ (MonthFile(y \div 10, 5) :> MonthTable(y \div 10, 5))
    @@ (MonthFile(y * 10, 5) :> MonthTable(y * 10, 5))
FullYears == {2019, 2020}

Restrict(f, S) == [x \in S |-> f[x]]
EmptyDir == Restrict(PqUniverse, {})

PqDirs ==
    {Restrict(PqUniverse, S) :
        S \in {T \in SUBSET DOMAIN PqUniverse : Cardinality(T) <= MaxFiles}}
    \cup UNION {{FullYear(y) @@ Restrict(OtherYears(y), S) :
                    S \in SUBSET DOMAIN OtherYears(y)} : y \in FullYears}

\* --------------------------------------------------- the CSV directories
\* A CSV file: whether pd.read_csv can parse it, the header of its birth
\* year column, and its records as text fields ("" is an empty field)
Csv(header, rows) == [parses |-> TRUE, header |-> header, rows |-> rows]
Malformed == [parses |-> FALSE, header |-> <<>>, rows |-> <<>>]
Rec(t, e, b) == [tripduration |-> t, endstationid |-> e, birthyear |-> b]

\* "Birth Year", "birth year", "yob", "birthyear"
HeaderBirthYear == <<66, 105, 114, 116, 104, 32, 89, 101, 97, 114>>
HeaderBirthYearLower == <<98, 105, 114, 116, 104, 32, 121, 101, 97, 114>>
HeaderYob == <<121, 111, 98>>
BirthYearColumn == <<98, 105, 114, 116, 104, 121, 101, 97, 114>>

\* "2019-01", "2019-02", "2019-03", "2019-04", "x"
Stem(m) == StrOfInt(2019) \o Hyphen \o Zero \o StrOfInt(m)
NameX == <<120>>

CsvUniverse ==
    (Stem(1) \o CsvExt :>
        Csv(HeaderBirthYear,
            <<Rec(11, StrOfInt(72), StrOfInt(1985)), Rec(12, <<>>, StrOfInt(1990))>>))
    @@ (Stem(2) \o CsvExt :>
        Csv(HeaderBirthYearLower,
            <<Rec(21, StrOfInt(72), BackslashN), Rec(22, <<>>, BackslashN),
              Rec(23, StrOfInt(79), StrOfInt(1970))>>))
    @@ (Stem(2) \o TxtExt :>
        Csv(HeaderBirthYear,
            <<Rec(31, StrOfInt(72), <<>>), Rec(32, StrOfInt(80), StrOfInt(1999))>>))
    @@ (Stem(3) \o CsvExt :> Malformed)
    @@ (Stem(4) \o CsvExt :> Csv(HeaderYob, <<Rec(41, StrOfInt(72), StrOfInt(1985))>>))
    @@ (NameX :> Csv(HeaderBirthYear, <<Rec(51, StrOfInt(72), BackslashN)>>))

CsvDirs ==
    {Restrict(CsvUniverse, S) :
        S \in {T \in SUBSET DOMAIN CsvUniverse : Cardinality(T) <= MaxCsv}}

\* ------------------------------------------------------ convert_to_parquet
\* col.lower().replace(" ", "")
RECURSIVE NormalizeColumn(_)
NormalizeColumn(col) ==
    IF col = <<>> THEN <<>>
    ELSE LET c == Head(col)
             rest == NormalizeColumn(Tail(col))
         IN IF c = 32 THEN rest
            ELSE IF c \in 65..90 THEN <<c + 32>> \o rest
            ELSE <<c>> \o rest

\* pd.read_csv on a numeric field / on a field of the birth year column
ParseField(s) == IF s = <<>> THEN NaN ELSE Num(IntOf(s))
InferDtype(rows) ==
    IF \A p \in 1..Len(rows) : rows[p].birthyear = <<>> \/ IsDigits(rows[p].birthyear)
    THEN IF \E p \in 1..Len(rows) : rows[p].birthyear = <<>> THEN "float64" ELSE "int64"
    ELSE "object"
ParseBirthYear(dtype, s) ==
    IF s = <<>> THEN NaN ELSE IF dtype = "object" THEN Str(s) ELSE Num(IntOf(s))

ReadCsv(csv) ==
    LET dtype == InferDtype(csv.rows)
    IN Table(dtype,
             [p \in 1..Len(csv.rows) |->
                 [tripduration |-> csv.rows[p].tripduration,
                  endstationid |-> ParseField(csv.rows[p].endstationid),
                  birthyear |-> ParseBirthYear(dtype, csv.rows[p].birthyear)]])

HasNaN(row) == row.endstationid = NaN \/ row.birthyear = NaN

\* csv_df.dropna(inplace=True): the rows without NaN, in order
RECURSIVE DropNaRows(_)
DropNaRows(rows) ==
    IF rows = <<>> THEN <<>>
    ELSE (IF HasNaN(Head(rows)) THEN <<>> ELSE <<Head(rows)>>) \o DropNaRows(Tail(rows))
DropNa(df) == [df EXCEPT !.rows = DropNaRows(df.rows)]

\* mutant: the result of replace is not assigned back
ReplaceBirthYearDiscarded(df) == df
\* csv_df["birthyear"].replace(r"\\N", "0", regex=True)
ReplaceBirthYear(df) ==
    [df EXCEPT !.rows =
        [p \in 1..Len(df.rows) |->
            IF df.rows[p].birthyear.k = "str"
            THEN [df.rows[p] EXCEPT !.birthyear = Str(ReplaceBackslashN(@.s))]
            ELSE df.rows[p]]]

\* lines 56-57: the output path of a CSV path
NewFilePath(csv_file, directory_to) ==
    directory_to \o DropLast4(LastComponent(csv_file)) \o PARQUET_EXTENSION

\* lines 60-65 on one file: the exception raised, or "none" and the dataframe
\* mutant: a file that does not parse is passed over
ConvertErrorIsolated(csv) ==
    IF csv.parses /\ NormalizeColumn(csv.header) # BirthYearColumn THEN "KeyError" ELSE "none"
ConvertError(csv) ==
    IF ~csv.parses THEN "ParserError"
    ELSE IF NormalizeColumn(csv.header) # BirthYearColumn THEN "KeyError"
    ELSE "none"
ConvertFile(csv) == ReplaceBirthYear(DropNa(ReadCsv(csv)))
\* ----------------------------------------------------- merge_monthly_trips
\* lines 100-117: the filter of the directory listing
RangeStart(year) == StrOfYear(year) \o Hyphen \o Zero \o StrOfInt(1)
\* mutant: the upper bound taken as the last month itself
RangeEndLastMonth(year) == StrOfYear(year) \o Hyphen \o StrOfInt(12)
RangeEnd(year) == StrOfYear(year) \o Hyphen \o StrOfInt(13)
\* mutant: without a year, every entry is taken
SelectedNoExtensionTest(year, f) ==
    IsTruthy(year) => (StrLeq(RangeStart(year), f) /\ StrLeq(f, RangeEnd(year)))
Selected(year, f) ==
    IF IsTruthy(year)
    THEN StrLeq(RangeStart(year), f) /\ StrLeq(f, RangeEnd(year))
    ELSE EndsWith(f, PARQUET_EXTENSION)

\* line 130
MergedName(year) == (IF IsTruthy(year) THEN StrOfYear(year) ELSE AllTrips)

\* the file name of a path below a directory
NameOf(path, directory) == SubSeq(path, Len(directory) + 1, Len(path))

\* ddf["birthyear"].astype("str") on a table
AsTypeStrRows(t) ==
    [p \in 1..Len(t.rows) |->
        [t.rows[p] EXCEPT !.birthyear = AsTypeStr(t.dtype, @)]]

\* dd.concat of a non-empty list: the rows of the tables one after another
\* mutant: the tables are appended in front
RECURSIVE ConcatRowsReversed(_)
ConcatRowsReversed(tables) ==
    IF tables = <<>> THEN <<>> ELSE ConcatRowsReversed(Tail(tables)) \o Head(tables)
RECURSIVE ConcatRows(_)
ConcatRows(tables) ==
    IF tables = <<>> THEN <<>> ELSE Head(tables) \o ConcatRows(Tail(tables))

\* mutant: an existing file is appended to instead of replaced
WriteFileAppending(dir, name, table) ==
    IF name \in DOMAIN dir /\ dir[name].ok
    THEN (name :> [table EXCEPT !.rows = dir[name].rows \o @]) @@ dir
    ELSE (name :> table) @@ dir
\* to_parquet(path): the file of that name is created or replaced
WriteFile(dir, name, table) == (name :> table) @@ dir

\* ------------------------------------------------------------------ state
VARIABLES
    csvDir,        \* the CSV directory: file name -> CSV file
    pqDir,         \* the parquet directory: file name -> table
    pc,            \* "idle", "convert", "convert_done", "merge", "merge_done"
    error,         \* the exception that ended the last call, or "none"
    runs,          \* calls made so far
    csv_files,     \* convert_to_parquet: the sorted paths
    i,             \* convert_to_parquet: files begun
    year,          \* merge_monthly_trips: the year argument
    month_files,   \* merge_monthly_trips: the sorted selected paths
    pos,           \* merge_monthly_trips: index of the next month_file
    parquet_ddfs,  \* merge_monthly_trips: the paths of the lazy dataframes
    listed,        \* the parquet directory as os.listdir saw it (history)
    written,       \* paths written by the current call (history)
    removals,      \* files removed by another process during a merge
    prev           \* the call before the current one: how it ended, and the
                   \* parquet directory as it left it (history)

vars == <<csvDir, pqDir, pc, error, runs, csv_files, i, year, month_files, pos,
          parquet_ddfs, listed, written, removals, prev>>

convertVars == <<csv_files, i>>
mergeVars == <<year, month_files, pos, parquet_ddfs, listed>>

Init ==
    /\ \/ csvDir \in CsvDirs /\ pqDir = EmptyDir
       \/ csvDir = EmptyDir /\ pqDir \in PqDirs
    /\ pc = "idle"
    /\ error = "none"
    /\ runs = 0
    /\ csv_files = <<>>
    /\ i = 0
    /\ year = None
    /\ month_files = <<>>
    /\ pos = 1
    /\ parquet_ddfs = <<>>
    /\ listed = EmptyDir
    /\ written = {}
    /\ removals = 0
    /\ prev = [call |-> "idle", error |-> "none", year |-> None, selected |-> {},
               written |-> {}, dir |-> EmptyDir]

\* what a call that starts now records of the call that has returned
Previous ==
    [call |-> pc, error |-> error, year |-> year,
     selected |-> {NameOf(month_files[p], ParquetDirectory) : p \in 1..Len(month_files)},
     written |-> written, dir |-> pqDir]

Returned == pc \in {"idle", "convert_done", "merge_done"}

\* line 52: list and sort the CSV paths
ConvertStart ==
    /\ Returned
    /\ runs < MaxRuns
    /\ runs' = runs + 1
    /\ csv_files' = Sorted({CsvDirectory \o f : f \in DOMAIN csvDir})
    /\ i' = 0
    /\ written' = {}
    /\ error' = "none"
    /\ pc' = IF DOMAIN csvDir = {} THEN "convert_done" ELSE "convert"
    /\ prev' = Previous
    /\ UNCHANGED <<csvDir, pqDir, mergeVars, removals>>

\* lines 54-66: one iteration of the loop
ConvertStep ==
    /\ pc = "convert"
    /\ LET csv_file == csv_files[i + 1]
           csv == csvDir[NameOf(csv_file, CsvDirectory)]
           newfilepath == NewFilePath(csv_file, ParquetDirectory)
       IN /\ i' = i + 1
          /\ error' = ConvertError(csv)
          /\ IF ConvertError(csv) # "none"
             THEN /\ pc' = "convert_done"
                  /\ UNCHANGED <<pqDir, written>>
             ELSE /\ pqDir' = WriteFile(pqDir, NameOf(newfilepath, ParquetDirectory),
                                         ConvertFile(csv))
                  /\ written' = written \cup {newfilepath}
                  /\ pc' = IF i + 1 = Len(csv_files) THEN "convert_done" ELSE "convert"
    /\ UNCHANGED <<csvDir, runs, csv_files, mergeVars, removals, prev>>

\* lines 100-119: list, filter and sort the directory
MergeStart(y) ==
    /\ Returned
    /\ runs < MaxRuns
    /\ runs' = runs + 1
    /\ year' = y
    /\ month_files' = Sorted({ParquetDirectory \o f : f \in {g \in DOMAIN pqDir : Selected(y, g)}})
    /\ parquet_ddfs' = <<>>
    /\ pos' = 1
    /\ listed' = pqDir
    /\ written' = {}
    /\ error' = "none"
    /\ pc' = "merge"
    /\ prev' = Previous
    /\ UNCHANGED <<csvDir, pqDir, convertVars, removals>>

\* lines 120-127: one iteration of the loop
MergeStep ==
    /\ pc = "merge"
    /\ pos <= Len(month_files)
    /\ LET month_file == month_files[pos]
           name == NameOf(month_file, ParquetDirectory)
       IN IF name \notin DOMAIN pqDir
          THEN /\ pos' = pos + 1
               /\ UNCHANGED <<parquet_ddfs, error, pc>>
          ELSE IF pqDir[name].ok
          THEN /\ pos' = pos + 1
               /\ parquet_ddfs' = Append(parquet_ddfs, month_file)
               /\ UNCHANGED <<error, pc>>
          ELSE /\ error' = "ArrowInvalid"
               /\ pc' = "merge_done"
               /\ UNCHANGED <<pos, parquet_ddfs>>
    /\ UNCHANGED <<csvDir, pqDir, runs, convertVars, year, month_files, listed,
                   written, removals, prev>>

\* lines 129-135: concatenate and write
MergeWrite ==
    /\ pc = "merge"
    /\ pos > Len(month_files)
    /\ pc' = "merge_done"
    /\ LET names == [p \in 1..Len(parquet_ddfs) |-> NameOf(parquet_ddfs[p], ParquetDirectory)]
           path == ParquetDirectory \o MergedName(year) \o PARQUET_EXTENSION
       IN IF parquet_ddfs = <<>>
          THEN /\ error' = "ValueError"
               /\ UNCHANGED <<pqDir, written>>
          ELSE IF \E p \in 1..Len(names) : names[p] \notin DOMAIN pqDir
          THEN /\ error' = "FileNotFoundError"
               /\ UNCHANGED <<pqDir, written>>
          ELSE LET all_trips ==
                       Table("object",
                             ConcatRows([p \in 1..Len(names) |-> AsTypeStrRows(pqDir[names[p]])]))
               IN /\ pqDir' = WriteFile(pqDir, NameOf(path, ParquetDirectory), all_trips)
                  /\ written' = {path}
                  /\ UNCHANGED error
    /\ UNCHANGED <<csvDir, runs, convertVars, mergeVars, removals, prev>>

\* another process removes an entry of the directory while a merge runs
RemoveFile(f) ==
    /\ pc = "merge"
    /\ removals < MaxRemovals
    /\ removals' = removals + 1
    /\ pqDir' = Restrict(pqDir, DOMAIN pqDir \ {f})
    /\ UNCHANGED <<csvDir, pc, error, runs, convertVars, mergeVars, written, prev>>

Next ==
    \/ ConvertStart
    \/ ConvertStep
    \/ \E y \in YearArgs : MergeStart(y)
    \/ MergeStep
    \/ MergeWrite

NextEnv ==
    \/ ConvertStart
    \/ ConvertStep
    \/ \E y \in YearArgs : MergeStart(y)
    \/ MergeStep
    \/ MergeWrite
    \/ \E f \in DOMAIN pqDir : RemoveFile(f)

\* the notebook alone: sequential calls, nothing else touches the directories
Spec == Init /\ [][Next]_vars

\* the notebook and a process that removes files of the parquet directory
SpecEnv == Init /\ [][NextEnv]_vars
\* ================================================================ claims
\* merge_monthly_trips has listed and filtered the directory
Listed == pc \in {"merge", "merge_done"}
\* the file names merge_monthly_trips selected
SelectedNames == {NameOf(month_files[p], ParquetDirectory) : p \in 1..Len(month_files)}

\* C1: with a truthy year Y the selected files are exactly the directory
\* entries f with str(Y)+"-01" <= f < str(Y)+"-13" (half-open: an entry named
\* str(Y)+"-13" is not selected).
C1_HalfOpenRange ==
    (Listed /\ IsTruthy(year)) =>
        SelectedNames =
            {f \in DOMAIN listed :
                /\ StrLeq(StrOfInt(year[1]) \o Hyphen \o <<48, 49>>, f)
                /\ StrLt(f, StrOfInt(year[1]) \o Hyphen \o <<49, 51>>)}

\* a name of the form <year>-<MM>.parquet with MM in 01..12
MonthSuffix(m) == Hyphen \o <<48 + (m \div 10), 48 + (m % 10)>> \o PARQUET_EXTENSION
IsMonthlyFile(f) ==
    \E p \in 1..Len(f) :
        /\ IsDigits(SubSeq(f, 1, p - 1))
        /\ \E m \in Months : SubSeq(f, p, Len(f)) = MonthSuffix(m)
MonthlyFilesOf(y) == {StrOfInt(y) \o MonthSuffix(m) : m \in Months}

\* C2: in a directory of monthly files that holds Y-01.parquet .. Y-12.parquet
\* and monthly files of other years, year=Y selects exactly the 12 files of Y.
C2_ExactlyTheTwelveMonths ==
    (/\ Listed
     /\ year # None
     /\ MonthlyFilesOf(year[1]) \subseteq DOMAIN listed
     /\ \A f \in DOMAIN listed : IsMonthlyFile(f))
    => /\ SelectedNames = MonthlyFilesOf(year[1])
       /\ Len(month_files) = 12

\* C2 witness: the twelve files of 2019 next to files of 2018, 2020, 201 and
\* 20190, listed with year=2019
C2_Witness ==
    /\ Listed
    /\ year = <<2019>>
    /\ MonthlyFilesOf(2019) \subseteq DOMAIN listed
    /\ \A f \in DOMAIN listed : IsMonthlyFile(f)
    /\ DOMAIN OtherYears(2019) \subseteq DOMAIN listed
    /\ Len(month_files) = 12

\* C3: with year=None the selected files are exactly the directory entries
\* whose name ends with ".parquet", whatever year the name embeds.
C3_NoneSelectsAllParquet ==
    (Listed /\ year = None) =>
        /\ \A f \in DOMAIN listed :
               f \in SelectedNames <=>
                   \E stem \in {SubSeq(f, 1, q) : q \in 0..Len(f)} :
                       f = stem \o PARQUET_EXTENSION
        /\ SelectedNames \subseteq DOMAIN listed

\* C3 witness: files of two years are selected and an entry without the
\* extension is left out
C3_Witness ==
    /\ Listed
    /\ year = None
    /\ {MonthFile(2018, 12), MonthFile(2019, 1)} \subseteq SelectedNames
    /\ NameNotes \in DOMAIN listed
    /\ NameNotes \notin SelectedNames
\* the merge has written its output
MergeWritten == pc = "merge_done" /\ error = "none"
MergedRows == pqDir[NameOf(CHOOSE w \in written : TRUE, ParquetDirectory)].rows

\* the number of rows of the listed files S
RECURSIVE SumRows(_)
SumRows(S) ==
    IF S = {} THEN 0
    ELSE LET g == CHOOSE x \in S : TRUE IN Len(listed[g].rows) + SumRows(S \ {g})

\* C4: the merged table is the selected files' rows, file after file in
\* ascending file name order, each file's rows in their order: row j of file f
\* is the merged row number (rows of the selected files below f) + j, and the
\* merged table has no other row.
C4_ConcatenationInNameOrder ==
    MergeWritten =>
        /\ Len(MergedRows) = SumRows(SelectedNames)
        /\ \A f \in SelectedNames :
               \A j \in 1..Len(listed[f].rows) :
                   LET src == listed[f].rows[j]
                       out == MergedRows[SumRows({g \in SelectedNames : StrLt(g, f)}) + j]
                   IN /\ out.tripduration = src.tripduration
                      /\ out.endstationid = src.endstationid
                      /\ src.birthyear.k = "str" => out.birthyear = src.birthyear

\* C4 witness: three files merged, one of them with two rows
C4_Witness ==
    /\ MergeWritten
    /\ Cardinality(SelectedNames) = 3
    /\ \E f \in SelectedNames : Len(listed[f].rows) = 2
    /\ Len(MergedRows) >= 4

\* convert_to_parquet returned without an exception
ConvertCompleted == pc = "convert_done" /\ error = "none"
OutputPath(f) == ParquetDirectory \o SubSeq(f, 1, Len(f) - 4) \o PARQUET_EXTENSION

\* C5 (as claimed): after a completed run every source file has its output
\* file, distinct source files have distinct output paths, and as many files
\* were written as the source directory holds.
C5_OneOutputPerInput ==
    ConvertCompleted =>
        /\ \A f \in DOMAIN csvDir : NameOf(OutputPath(f), ParquetDirectory) \in DOMAIN pqDir
        /\ \A f, g \in DOMAIN csvDir : f # g => OutputPath(f) # OutputPath(g)
        /\ Cardinality(written) = Cardinality(DOMAIN csvDir)

\* C5 (amended): after a completed run the files written are exactly the
\* paths "source name without its last four characters" + ".parquet", all
\* present in the destination; source files that agree up to their last four
\* characters share one output, which holds the rows of the one sorted last;
\* when every source name ends in ".csv" the outputs are as many as the inputs.
C5_OneOutputPerStem ==
    ConvertCompleted =>
        /\ written = {OutputPath(f) : f \in DOMAIN csvDir}
        /\ \A f \in DOMAIN csvDir :
               /\ NameOf(OutputPath(f), ParquetDirectory) \in DOMAIN pqDir
               /\ (\A g \in DOMAIN csvDir : OutputPath(g) = OutputPath(f) => StrLeq(g, f))
                  => LET out == pqDir[NameOf(OutputPath(f), ParquetDirectory)].rows
                     IN \A q \in 1..Len(out) :
                            \E p \in 1..Len(csvDir[f].rows) :
                                csvDir[f].rows[p].tripduration = out[q].tripduration
        /\ (\A f \in DOMAIN csvDir : EndsWith(f, CsvExt))
           => Cardinality(written) = Cardinality(DOMAIN csvDir)

\* C5 witness: three source files, two of which share an output path
C5_Witness ==
    /\ ConvertCompleted
    /\ Cardinality(DOMAIN csvDir) = 3
    /\ Cardinality(written) = 2

\* the i-th file has just been converted and written
FileWritten == pc \in {"convert", "convert_done"} /\ i >= 1 /\ error = "none"
LastSource == csvDir[NameOf(csv_files[i], CsvDirectory)].rows
LastOutput == pqDir[NameOf(NewFilePath(csv_files[i], ParquetDirectory), ParquetDirectory)].rows
NoNull(rows) == \A q \in 1..Len(rows) : rows[q].endstationid # NaN /\ rows[q].birthyear # NaN

\* C6 (as claimed): every source row whose birth year is \N is in the output
\* with birth year "0", and no output row has a null field.
C6_MarkerRowsKept ==
    FileWritten =>
        /\ \A p \in 1..Len(LastSource) :
               LastSource[p].birthyear = BackslashN =>
                   \E q \in 1..Len(LastOutput) :
                       /\ LastOutput[q].tripduration = LastSource[p].tripduration
                       /\ LastOutput[q].birthyear = Str(Zero)
        /\ NoNull(LastOutput)

\* C6 (amended): every source row whose birth year is \N and that has no
\* empty field is in the output with birth year "0"; a source row with an empty
\* field is not in the output, whatever its birth year; no output row has a
\* null field.
C6_CompleteMarkerRowsKept ==
    FileWritten =>
        /\ \A p \in 1..Len(LastSource) :
               IF LastSource[p].endstationid = <<>> \/ LastSource[p].birthyear = <<>>
               THEN \A q \in 1..Len(LastOutput) :
                        LastOutput[q].tripduration # LastSource[p].tripduration
               ELSE LastSource[p].birthyear = BackslashN =>
                        \E q \in 1..Len(LastOutput) :
                            /\ LastOutput[q].tripduration = LastSource[p].tripduration
                            /\ LastOutput[q].birthyear = Str(Zero)
        /\ NoNull(LastOutput)

\* C6 witness: the file just written had a complete \N row and a \N row with
\* an empty field
C6_Witness ==
    /\ FileWritten
    /\ \E p \in 1..Len(LastSource) :
           LastSource[p].birthyear = BackslashN /\ LastSource[p].endstationid # <<>>
    /\ \E p \in 1..Len(LastSource) :
           LastSource[p].birthyear = BackslashN /\ LastSource[p].endstationid = <<>>
    /\ \E q \in 1..Len(LastOutput) : LastOutput[q].birthyear = Str(Zero)

\* C7: when a file that does not parse has been reached, the run has ended
\* at that file with ParserError; exactly the outputs of the files sorted
\* before it were written and are in place, and no later file was begun.
C7_ParseFailureAborts ==
    pc \in {"convert", "convert_done"} =>
        \A q \in 1..i :
            ~csvDir[NameOf(csv_files[q], CsvDirectory)].parses =>
                /\ pc = "convert_done"
                /\ error = "ParserError"
                /\ i = q
                /\ written = {NewFilePath(csv_files[r], ParquetDirectory) : r \in 1..(q - 1)}
                /\ \A w \in written : NameOf(w, ParquetDirectory) \in DOMAIN pqDir

\* C7 witness: the second of three files failed to parse; one output is in
\* place
C7_Witness ==
    /\ pc = "convert_done"
    /\ error = "ParserError"
    /\ Len(csv_files) = 3
    /\ i = 2
    /\ Cardinality(written) = 1
    /\ runs = 1
\* the selected paths the loop passed over because the file did not exist
Skipped ==
    {month_files[p] : p \in 1..(pos - 1)} \ {parquet_ddfs[p] : p \in 1..Len(parquet_ddfs)}

\* C8: when a selected file did not exist at its turn (and every other
\* selected file could be read), the call ends without an exception and has
\* written the merge of the remaining files.
C8_MissingFileSkippedSilently ==
    (/\ pc = "merge_done"
     /\ Skipped # {}
     /\ error \notin {"ArrowInvalid", "FileNotFoundError"})
    => /\ error = "none"
       /\ written = {ParquetDirectory \o MergedName(year) \o PARQUET_EXTENSION}
       /\ Len(MergedRows) =
              SumRows({NameOf(parquet_ddfs[p], ParquetDirectory) : p \in 1..Len(parquet_ddfs)})

\* C9: when no entry of the directory is selected, the call ends without an
\* exception and has written an empty merge.
C9_EmptySelectionEmptyMerge ==
    (pc = "merge_done" /\ month_files = <<>>) =>
        /\ error = "none"
        /\ written # {}
        /\ MergedRows = <<>>

\* C10: a call that wrote its merge wrote one file, in the directory it read,
\* named str(year)+".parquet" for every year other than None and
\* "alltrips.parquet" for None.
C10_NamedAfterTheYear ==
    MergeWritten =>
        written = {ParquetDirectory
                       \o (IF year # None THEN StrOfInt(year[1]) ELSE AllTrips)
                       \o PARQUET_EXTENSION}
\* the birth-year storage types of the files the merge read
SelectedDtypes == {listed[f].dtype : f \in {g \in SelectedNames : Len(listed[g].rows) > 0}}

\* C11: every birth-year value of a written merge is text, whatever mix of
\* numeric and text birth-year columns the selected files have.
C11_BirthYearIsText ==
    MergeWritten =>
        \A q \in 1..Len(MergedRows) :
            /\ MergedRows[q].birthyear.k = "str"
            /\ MergedRows[q].birthyear.s # <<>>

\* C11 witness: a merge of files storing the birth year as int64, as float64
\* and as text
C11_Witness ==
    /\ MergeWritten
    /\ {"int64", "float64", "object"} \subseteq SelectedDtypes
    /\ Len(MergedRows) >= 3
\* convert_to_parquet has returned, and the call before it was
\* convert_to_parquet too
ConvertedTwice == pc = "convert_done" /\ prev.call = "convert_done"

\* C12: a second convert_to_parquet on the unchanged source leaves the
\* destination as the first run left it: the same files with the same rows
\* (and it ends as the first run ended, having written the same paths).
C12_ConvertIdempotent ==
    ConvertedTwice =>
        /\ pqDir = prev.dir
        /\ written = prev.written
        /\ error = prev.error

\* C12 witness: two completed runs over three source files, two of them
\* sharing an output path, the outputs holding rows
C12_Witness ==
    /\ ConvertedTwice
    /\ error = "none"
    /\ Cardinality(DOMAIN csvDir) = 3
    /\ Cardinality(written) = 2
    /\ \A w \in written : Len(pqDir[NameOf(w, ParquetDirectory)].rows) > 0
\* merge_monthly_trips has listed the directory, and the call before it was
\* a merge_monthly_trips with the same year argument that wrote its output
MergedTwice ==
    /\ Listed
    /\ prev.call = "merge_done"
    /\ prev.error = "none"
    /\ prev.year = year

\* C13: the file a merge wrote is not selected by the next merge with the
\* same year argument (a year or None): the second call selects the files the
\* first selected and, when it writes, writes the rows the first wrote.
C13_MergedFileNotReselected ==
    MergedTwice =>
        /\ \A w \in prev.written : NameOf(w, ParquetDirectory) \notin SelectedNames
        /\ SelectedNames = prev.selected
        /\ MergeWritten =>
               \A w \in prev.written :
                   MergedRows = prev.dir[NameOf(w, ParquetDirectory)].rows
====
